---------------------------- MODULE Spec2Model ----------------------------
(***************************************************************************)
(* A model of contarg's seed-based connectivity code                       *)
(* (src/contarg/seedmap.py): get_ref_vox_con, get_seedmap_vox_con and      *)
(* get_com_in_mm.  One call is a state machine whose pc follows the        *)
(* statements of the function; the images read from disk and the matrices  *)
(* returned by nilearn's maskers are the environment's choice, made when   *)
(* the statement reading them runs.                                        *)
(*                                                                         *)
(* Numbers.  Array entries are exact rationals <<n, d>> in lowest terms    *)
(* with d > 0; <<0, 0>> is NaN (numpy's 0/0, which warns and does not      *)
(* raise).  A z-scored value q / sqrt(s) is kept as the pair [q, s], so    *)
(* that no square root is taken; floating-point rounding is not modelled.  *)
(***************************************************************************)
EXTENDS Integers, Sequences, FiniteSets, TLC

\* ------------------------------------------------------------- bounds
NVox == 3        \* voxels of the image grid (flattened)
MaxRows == 3     \* most volumes over all the runs of one call
MaxDummy == 1    \* largest n_dummy
MaxPts == 2      \* most non-zero voxels of a cluster image

Vox == 1..NVox
Vals == {0, 1}          \* entries of a cleaned time series
Weights == {-1, 0, 1}   \* entries of a seed map
MaskSizes == {1, 2}     \* voxel counts of the whole-brain masks tried
Null == <<>>

\* ------------------------------------------------------------- rationals
NaN == <<0, 0>>
Zero == <<0, 1>>
One == <<1, 1>>

Abs(x) == IF x < 0 THEN -x ELSE x

RECURSIVE GCD(_, _)
GCD(a, b) == IF b = 0 THEN a ELSE GCD(b, a % b)

\* n/d in lowest terms; anything over 0 is NaN (only 0/0 arises here)
Rat(n, d) ==
    IF d = 0 THEN NaN
    ELSE LET g == GCD(Abs(n), Abs(d))
             s == IF d < 0 THEN -1 ELSE 1
         IN  <<(s * n) \div g, (s * d) \div g>>

IsNaN(x) == x[2] = 0
OfInt(i) == <<i, 1>>
RAdd(x, y) == IF IsNaN(x) \/ IsNaN(y) THEN NaN
              ELSE Rat(x[1] * y[2] + y[1] * x[2], x[2] * y[2])
RSub(x, y) == IF IsNaN(x) \/ IsNaN(y) THEN NaN
              ELSE Rat(x[1] * y[2] - y[1] * x[2], x[2] * y[2])
RMul(x, y) == IF IsNaN(x) \/ IsNaN(y) THEN NaN
              ELSE Rat(x[1] * y[1], x[2] * y[2])
RDiv(x, y) == IF IsNaN(x) \/ IsNaN(y) THEN NaN
              ELSE Rat(x[1] * y[2], x[2] * y[1])

\* sum of a sequence of rationals, left to right
RECURSIVE RSum(_)
RSum(s) == IF s = <<>> THEN Zero ELSE RAdd(s[1], RSum(Tail(s)))

\* ndarray.mean over a 1-D array: the mean of no element is NaN
RMean(s) == RDiv(RSum(s), OfInt(Len(s)))

\* ------------------------------------------------------------- masking
RECURSIVE SetToSeq(_)
SetToSeq(S) == IF S = {} THEN <<>>
               ELSE LET m == CHOOSE x \in S : \A y \in S : x <= y
                    IN  <<m>> \o SetToSeq(S \ {m})

\* the voxels of a mask in the order of the flattened vectors
MaskOrder(mask) == SetToSeq(mask)

\* nl.masking.apply_mask: the image's values at the mask's voxels, in order
apply_mask(img, mask) ==
    LET ord == MaskOrder(mask) IN [i \in 1..Len(ord) |-> img[ord[i]]]

\* a faulty unmask: the voxels outside the mask are filled with the first entry
unmask_Fill(vec, mask) ==
    LET ord == SetToSeq(mask)
    IN  [v \in Vox |-> IF v \in mask
                       THEN vec[CHOOSE i \in 1..Len(ord) : ord[i] = v]
                       ELSE vec[1]]

\* nl.masking.unmask: the vector back at the mask's voxels, 0 elsewhere
unmask(vec, mask) ==
    LET ord == MaskOrder(mask)
    IN  [v \in Vox |-> IF v \in mask
                       THEN vec[CHOOSE i \in 1..Len(ord) : ord[i] = v]
                       ELSE Zero]

\* ------------------------------------------------------------- state
VARIABLES
    fn,               \* the function called
    pc,               \* the statement the call is at
    bold_path,        \* argument: <<"bare", p>> or <<"list", <<p1, ..>>>>
    n_dummy,          \* argument (get_seedmap_vox_con)
    out_path,         \* argument: "none" or a path
    bold_paths,       \* the runs to process, and how many are done
    done_runs,
    subj_mask,        \* the whole-brain mask: the set of its voxels
    masked_ref_mask,
    masked_stim_mask,
    seedmap,          \* apply_mask(seedmap, subj_mask) as loaded
    masked_seedmap,   \* the weights, zeroed in place at line 102
    cleaned,          \* what subj_masker.fit_transform returned
    clean_tses,
    cat_clean_tses,
    seed_ts,          \* ref_ts / seedmap_ts
    vox_dat,          \* ref_vox / vox_dat
    ref_vox_img,      \* the returned image
    files,            \* to_filename calls made: the images written
    err,              \* the exception that ended the call
    clust_img,        \* get_com_in_mm: [data, affine]
    clust_idxs,
    clust_locs,
    com

vars == <<fn, pc, bold_path, n_dummy, out_path, bold_paths, done_runs, subj_mask,
          masked_ref_mask, masked_stim_mask, seedmap, masked_seedmap, cleaned,
          clean_tses, cat_clean_tses, seed_ts, vox_dat, ref_vox_img, files, err,
          clust_img, clust_idxs, clust_locs, com>>

args == <<fn, bold_path, n_dummy, out_path>>
imgs == <<subj_mask, masked_ref_mask, masked_stim_mask, seedmap, masked_seedmap>>
comv == <<clust_img, clust_idxs, clust_locs, com>>


\* ------------------------------------------------------------- arguments
\* contarg.utils.iterable: whether bold_path is a collection of runs
iterable(x) == x[1] = "list"

\* a faulty normalisation: a collection loses its first run
BoldPaths_SkipFirst(bp) ==
    IF ~iterable(bp) THEN <<bp[2]>> ELSE SubSeq(bp[2], 2, Len(bp[2]))

\* lines 31-34 and 92-95
BoldPaths(bp) == IF ~iterable(bp) THEN <<bp[2]>> ELSE bp[2]

BoldArgs == {<<"bare", 1>>} \cup {<<"list", [i \in 1..j |-> i]>> : j \in 0..MaxRows}
OutPaths == {"none", "out.nii.gz"}

\* the grid of a cluster image and the affines tried
Coords == {<<i, j, k>> : i \in 0..1, j \in 0..1, k \in 0..1}
Affines == {<< <<d, h, 0, o>>, <<0, d, 0, o>>, <<0, 0, d, o>>, <<0, 0, 0, 1>> >> :
              d \in {1, 2}, h \in {0, 1}, o \in {0, -1}}
ClustImgs == {[data |-> S, affine |-> A] :
                S \in {T \in SUBSET Coords : Cardinality(T) <= MaxPts}, A \in Affines}

Masks == {m \in SUBSET Vox : Cardinality(m) \in MaskSizes}

Init ==
    /\ fn \in {"ref", "seedmap", "com"}
    /\ pc = "start"
    /\ IF fn = "com"
       THEN /\ bold_path = Null /\ n_dummy = 0 /\ out_path = "none"
            /\ clust_img \in ClustImgs
       ELSE /\ bold_path \in BoldArgs
            /\ n_dummy \in (IF fn = "seedmap" THEN 0..MaxDummy ELSE {0})
            /\ out_path \in OutPaths
            /\ clust_img = Null
    /\ bold_paths = Null /\ done_runs = 0
    /\ subj_mask = {} /\ masked_ref_mask = Null /\ masked_stim_mask = Null
    /\ seedmap = Null /\ masked_seedmap = Null
    /\ cleaned = Null /\ clean_tses = Null /\ cat_clean_tses = Null
    /\ seed_ts = Null /\ vox_dat = Null /\ ref_vox_img = Null
    /\ files = <<>> /\ err = "none"
    /\ clust_idxs = Null /\ clust_locs = Null /\ com = Null

\* an exception leaves the function: its locals are gone, nothing is returned
RaiseWith(e, written) ==
    /\ pc' = "failed" /\ err' = e
    /\ files' = written
    /\ bold_paths' = Null /\ done_runs' = 0
    /\ subj_mask' = {} /\ masked_ref_mask' = Null /\ masked_stim_mask' = Null
    /\ seedmap' = Null /\ masked_seedmap' = Null
    /\ cleaned' = Null /\ clean_tses' = Null /\ cat_clean_tses' = Null
    /\ seed_ts' = Null /\ vox_dat' = Null /\ ref_vox_img' = Null
    /\ clust_idxs' = Null /\ clust_locs' = Null /\ com' = Null
    /\ UNCHANGED <<args, clust_img>>

Raise(e) == RaiseWith(e, files)

InCall == fn \in {"ref", "seedmap"}

\* lines 31-34, 92-95
Normalize ==
    /\ InCall /\ pc = "start"
    /\ bold_paths' = BoldPaths(bold_path)
    /\ pc' = "load"
    /\ UNCHANGED <<args, done_runs, imgs, cleaned, clean_tses, cat_clean_tses,
                   seed_ts, vox_dat, ref_vox_img, files, err, comv>>

\* lines 36-47: the mask and the reference ROI are read from their files
LoadRef ==
    /\ fn = "ref" /\ pc = "load"
    /\ \E mask \in Masks, roi \in [Vox -> {0, 1}] :
          /\ subj_mask' = mask
          /\ masked_ref_mask' = apply_mask(roi, mask)
    /\ clean_tses' = <<>>
    /\ pc' = "loop"
    /\ UNCHANGED <<args, bold_paths, done_runs, masked_stim_mask, seedmap,
                   masked_seedmap, cleaned, cat_clean_tses, seed_ts, vox_dat,
                   ref_vox_img, files, err, comv>>

\* lines 97-101: the mask, the stimulation ROI and the seed map are read
LoadSeed ==
    /\ fn = "seedmap" /\ pc = "load"
    /\ \E mask \in Masks, roi \in [Vox -> {0, 1}], sm \in [Vox -> Weights] :
          /\ subj_mask' = mask
          /\ masked_stim_mask' = apply_mask(roi, mask)
          /\ seedmap' = apply_mask(sm, mask)
          /\ masked_seedmap' = apply_mask(sm, mask)
    /\ pc' = "zero_stim"
    /\ UNCHANGED <<args, bold_paths, done_runs, masked_ref_mask, cleaned, clean_tses,
                   cat_clean_tses, seed_ts, vox_dat, ref_vox_img, files, err, comv>>

\* load_img of a file that cannot be read
LoadFail ==
    /\ InCall /\ pc = "load"
    /\ Raise("FileNotFoundError")

\* a faulty line 102: the weights inside the stimulation ROI are left as loaded
StimZeroed_Skip(w, stim) == w

\* a faulty line 102: the weights outside the stimulation ROI are zeroed
StimZeroed_Inverted(w, stim) == [i \in DOMAIN w |-> IF stim[i] = 0 THEN 0 ELSE w[i]]

\* line 102: masked_seedmap[masked_stim_mask != 0] = 0
StimZeroed(w, stim) == [i \in DOMAIN w |-> IF stim[i] # 0 THEN 0 ELSE w[i]]

ZeroStimWeights ==
    /\ pc = "zero_stim"
    /\ masked_seedmap' = StimZeroed(masked_seedmap, masked_stim_mask)
    /\ clean_tses' = <<>>
    /\ pc' = "loop"
    /\ UNCHANGED <<args, bold_paths, done_runs, subj_mask, masked_ref_mask,
                   masked_stim_mask, seedmap, cleaned, cat_clean_tses, seed_ts,
                   vox_dat, ref_vox_img, files, err, comv>>

NMask == Cardinality(subj_mask)

\* lines 51-52, 115-116: the maskers return the run's cleaned matrix, one row
\* per volume and one column per mask voxel
\* np.vstack of a non-empty list of matrices with equal column counts
RECURSIVE vstack(_)
vstack(ms) == IF ms = <<>> THEN <<>> ELSE ms[1] \o vstack(Tail(ms))

\* the volumes a run may still have: MaxRows caps the rows of one call
RowsLeft == MaxRows - Len(vstack(clean_tses)) - (Len(bold_paths) - done_runs - 1)

FitTransform ==
    /\ pc = "loop" /\ done_runs < Len(bold_paths)
    /\ \E L \in 1..RowsLeft : cleaned' \in [1..L -> [1..NMask -> Vals]]
    /\ pc' = "append"
    /\ UNCHANGED <<args, bold_paths, done_runs, imgs, clean_tses, cat_clean_tses,
                   seed_ts, vox_dat, ref_vox_img, files, err, comv>>

\* the maskers fail on a run (unreadable file, wrong grid, bad t_r)
FitFail ==
    /\ pc = "loop" /\ done_runs < Len(bold_paths)
    /\ Raise("MaskerError")

\* a faulty slice: m[:n], the dummy volumes kept and the rest dropped
DropRows_KeepHead(m, n) == SubSeq(m, 1, IF n < Len(m) THEN n ELSE Len(m))

\* m[n:] for n >= 0
DropRows(m, n) == IF n >= Len(m) THEN <<>> ELSE SubSeq(m, n + 1, Len(m))

\* line 53; lines 116-117 with the slice [n_dummy:]
Kept(m) == IF fn = "seedmap" THEN DropRows(m, n_dummy) ELSE m

AppendRun ==
    /\ pc = "append"
    /\ clean_tses' = Append(clean_tses, Kept(cleaned))
    /\ cleaned' = Null
    /\ done_runs' = done_runs + 1
    /\ pc' = "loop"
    /\ UNCHANGED <<args, bold_paths, imgs, cat_clean_tses, seed_ts, vox_dat,
                   ref_vox_img, files, err, comv>>

\* lines 54, 118; np.vstack raises ValueError on an empty list.  The list
\* clean_tses is not read again after this statement and is dropped here.
Stack ==
    /\ pc = "loop" /\ done_runs = Len(bold_paths)
    /\ IF clean_tses = <<>>
       THEN Raise("ValueError")
       ELSE /\ cat_clean_tses' = vstack(clean_tses)
            /\ clean_tses' = Null
            /\ pc' = "seed"
            /\ UNCHANGED <<args, bold_paths, done_runs, imgs, cleaned,
                           seed_ts, vox_dat, ref_vox_img, files, err, comv>>

\* ------------------------------------------------------------- connectivity
\* row[sel]: the entries of a row at the positions where sel is true
RECURSIVE Pick(_, _)
Pick(row, sel) ==
    IF row = <<>> THEN <<>>
    ELSE (IF sel[1] # 0 THEN <<OfInt(row[1])>> ELSE <<>>) \o Pick(Tail(row), Tail(sel))

\* a faulty line 55: the mean is taken over every mask voxel
RefSeries_AllVoxels(M, ref) ==
    [q |-> [t \in 1..Len(M) |-> RMean([i \in DOMAIN ref |-> OfInt(M[t][i])])],
     s |-> One]

\* line 55: cat_clean_tses[:, masked_ref_mask.astype(bool)].mean(1)
RefSeries(M, ref) ==
    [q |-> [t \in 1..Len(M) |-> RMean(Pick(M[t], ref))], s |-> One]

RefTs ==
    /\ fn = "ref" /\ pc = "seed"
    /\ seed_ts' = RefSeries(cat_clean_tses, masked_ref_mask)
    /\ pc' = "dot"
    /\ UNCHANGED <<args, bold_paths, done_runs, imgs, cleaned, clean_tses,
                   cat_clean_tses, vox_dat, ref_vox_img, files, err, comv>>

RECURSIVE ISum(_)
ISum(s) == IF s = <<>> THEN 0 ELSE s[1] + ISum(Tail(s))

\* sum over the columns of row[i] * w[i]
WSum(row, w) == ISum([i \in DOMAIN w |-> row[i] * w[i]])

\* line 119: np.average(M, axis=1, weights=w), defined when sum(w) is not 0
WeightedAverage(M, w) ==
    [q |-> [t \in 1..Len(M) |-> Rat(WSum(M[t], w), ISum(w))], s |-> One]

\* line 119; np.average raises ZeroDivisionError when the weights sum to zero
Average ==
    /\ fn = "seedmap" /\ pc = "seed"
    /\ IF ISum(masked_seedmap) = 0
       THEN Raise("ZeroDivisionError")
       ELSE /\ seed_ts' = WeightedAverage(cat_clean_tses, masked_seedmap)
            /\ pc' = "zscore"
            /\ UNCHANGED <<args, bold_paths, done_runs, imgs, cleaned, clean_tses,
                           cat_clean_tses, vox_dat, ref_vox_img, files, err, comv>>

\* the variance x.std(0) ** 2 of a series
Variance(x) ==
    LET m == RMean(x)
    IN  RMean([t \in DOMAIN x |-> RMul(RSub(x[t], m), RSub(x[t], m))])

\* line 120: (x - x.mean(0)) / x.std(0), kept as q / sqrt(s).  A zero std
\* divides 0 by 0: every entry is NaN and nothing is raised.
ZScored(x) ==
    LET m == RMean(x)
        var == Variance(x)
        flat == IsNaN(var) \/ var = Zero
    IN  [q |-> [t \in DOMAIN x |-> IF flat THEN NaN ELSE RSub(x[t], m)],
         s |-> IF flat THEN One ELSE var]

ZScore ==
    /\ pc = "zscore"
    /\ seed_ts' = ZScored(seed_ts.q)
    /\ pc' = "zero_cols"
    /\ UNCHANGED <<args, bold_paths, done_runs, imgs, cleaned, clean_tses,
                   cat_clean_tses, vox_dat, ref_vox_img, files, err, comv>>

\* line 121: cat_clean_tses[:, masked_stim_mask == 0] = 0
StimOnly(M, stim) ==
    [t \in 1..Len(M) |-> [i \in DOMAIN stim |-> IF stim[i] = 0 THEN 0 ELSE M[t][i]]]

ZeroCols ==
    /\ pc = "zero_cols"
    /\ cat_clean_tses' = StimOnly(cat_clean_tses, masked_stim_mask)
    /\ pc' = "dot"
    /\ UNCHANGED <<args, bold_paths, done_runs, imgs, cleaned, clean_tses,
                   seed_ts, vox_dat, ref_vox_img, files, err, comv>>

\* lines 56, 122: np.dot(M.T, ts) / ts.shape[0], one entry per mask voxel
DotOverT(M, ts, n) ==
    [q |-> [i \in 1..n |->
              RDiv(RSum([t \in 1..Len(M) |-> RMul(OfInt(M[t][i]), ts.q[t])]),
                   OfInt(Len(ts.q)))],
     s |-> ts.s]

Dot ==
    /\ pc = "dot"
    /\ vox_dat' = DotOverT(cat_clean_tses, seed_ts, NMask)
    /\ pc' = "unmask"
    /\ UNCHANGED <<args, bold_paths, done_runs, imgs, cleaned, clean_tses,
                   cat_clean_tses, seed_ts, ref_vox_img, files, err, comv>>

\* lines 57, 123
Unmask ==
    /\ pc = "unmask"
    /\ ref_vox_img' = [q |-> unmask(vox_dat.q, subj_mask), s |-> vox_dat.s]
    /\ pc' = "write"
    /\ UNCHANGED <<args, bold_paths, done_runs, imgs, cleaned, clean_tses,
                   cat_clean_tses, seed_ts, vox_dat, files, err, comv>>

\* a faulty line 58: the image is written whatever out_path is
ShouldWrite_Always == TRUE

\* lines 58, 124: if out_path is not None
ShouldWrite == out_path # "none"

\* lines 58-59, 124-125 with an out_path
WriteFile ==
    /\ pc = "write" /\ ShouldWrite
    /\ files' = Append(files, ref_vox_img)
    /\ pc' = "return"
    /\ UNCHANGED <<args, bold_paths, done_runs, imgs, cleaned, clean_tses,
                   cat_clean_tses, seed_ts, vox_dat, ref_vox_img, err, comv>>

\* what a to_filename that failed midway leaves at out_path
Truncated == [q |-> <<>>, s |-> One]

\* to_filename cannot write to out_path: nothing, or a truncated file, is left
WriteFail ==
    /\ pc = "write" /\ ShouldWrite
    /\ \E left \in {files, Append(files, Truncated)} : RaiseWith("OSError", left)

\* lines 58, 124 without an out_path
SkipWrite ==
    /\ pc = "write" /\ ~ShouldWrite
    /\ pc' = "return"
    /\ UNCHANGED <<args, bold_paths, done_runs, imgs, cleaned, clean_tses,
                   cat_clean_tses, seed_ts, vox_dat, ref_vox_img, files, err, comv>>

\* lines 61, 127: the image is returned and the locals are dropped
Return ==
    /\ pc = "return"
    /\ pc' = "done"
    /\ bold_paths' = Null /\ done_runs' = 0
    /\ subj_mask' = {} /\ masked_ref_mask' = Null /\ masked_stim_mask' = Null
    /\ seedmap' = Null /\ masked_seedmap' = Null
    /\ clean_tses' = Null /\ cat_clean_tses' = Null
    /\ seed_ts' = Null /\ vox_dat' = Null
    /\ UNCHANGED <<args, cleaned, ref_vox_img, files, err, comv>>

\* ------------------------------------------------------------- center of mass
\* a < b in the order np.where lists coordinates (row-major)
LexLess(a, b) ==
    \/ a[1] < b[1]
    \/ a[1] = b[1] /\ a[2] < b[2]
    \/ a[1] = b[1] /\ a[2] = b[2] /\ a[3] < b[3]

RECURSIVE LexSeq(_)
LexSeq(S) == IF S = {} THEN <<>>
             ELSE LET m == CHOOSE x \in S : \A y \in S \ {x} : LexLess(x, y)
                  IN  <<m>> \o LexSeq(S \ {m})

\* line 131: the non-zero voxels' coordinates, each with a trailing 1
Idxs(data) == LET c == LexSeq(data) IN [r \in 1..Len(c) |-> c[r] \o <<1>>]

ComIdxs ==
    /\ fn = "com" /\ pc = "start"
    /\ clust_idxs' = Idxs(clust_img.data)
    /\ pc' = "locs"
    /\ UNCHANGED <<args, bold_paths, done_runs, imgs, cleaned, clean_tses,
                   cat_clean_tses, seed_ts, vox_dat, ref_vox_img, files, err,
                   clust_img, clust_locs, com>>

\* a faulty line 132: the affine's translation column is left out
Locs_NoTranslation(A, idxs) ==
    [r \in 1..Len(idxs) |->
       [c \in 1..3 |-> A[c][1] * idxs[r][1] + A[c][2] * idxs[r][2] + A[c][3] * idxs[r][3]]]

\* line 132: np.matmul(affine, idxs.T).T[:, :3]
Locs(A, idxs) ==
    [r \in 1..Len(idxs) |->
       [c \in 1..3 |-> ISum([j \in 1..4 |-> A[c][j] * idxs[r][j]])]]

\* line 132; with no non-zero voxel idxs has shape (0,) and matmul raises
ComLocs ==
    /\ pc = "locs"
    /\ IF clust_idxs = <<>>
       THEN Raise("ValueError")
       ELSE /\ clust_locs' = Locs(clust_img.affine, clust_idxs)
            /\ pc' = "mean"
            /\ UNCHANGED <<args, bold_paths, done_runs, imgs, cleaned, clean_tses,
                           cat_clean_tses, seed_ts, vox_dat, ref_vox_img, files, err,
                           clust_img, clust_idxs, com>>

\* line 133: clust_locs.mean(0)
ColMeans(locs) ==
    [c \in 1..3 |-> Rat(ISum([r \in 1..Len(locs) |-> locs[r][c]]), Len(locs))]

ComMean ==
    /\ pc = "mean"
    /\ com' = ColMeans(clust_locs)
    /\ pc' = "done"
    /\ clust_idxs' = Null /\ clust_locs' = Null
    /\ UNCHANGED <<args, bold_paths, done_runs, imgs, cleaned, clean_tses,
                   cat_clean_tses, seed_ts, vox_dat, ref_vox_img, files, err,
                   clust_img>>

\* ------------------------------------------------------------- specification
Next ==
    \/ Normalize
    \/ LoadRef
    \/ LoadSeed
    \/ LoadFail
    \/ ZeroStimWeights
    \/ FitTransform
    \/ FitFail
    \/ AppendRun
    \/ Stack
    \/ RefTs
    \/ Average
    \/ ZScore
    \/ ZeroCols
    \/ Dot
    \/ Unmask
    \/ WriteFile
    \/ WriteFail
    \/ SkipWrite
    \/ Return
    \/ ComIdxs
    \/ ComLocs
    \/ ComMean

Spec == Init /\ [][Next]_vars


\* ------------------------------------------------------------- properties
\* the position of mask voxel v in the flattened vectors
Col(v) == Cardinality({u \in subj_mask : u <= v})

\* the connectivity image exists and the locals it was built from are live
HasImage == pc \in {"write", "return"}

\* voxel v lies inside the stimulation ROI (as seen through the mask)
InStim(v) == v \in subj_mask /\ masked_stim_mask[Col(v)] # 0

\* the stages of get_seedmap_vox_con after np.average returned
PastAverage == {"zscore", "zero_cols", "dot", "unmask", "write", "return"}

\* C1: in both functions every voxel of the returned volume that lies outside
\* the whole-brain mask is exactly zero.
C1_MaskInvariant ==
    HasImage => \A v \in Vox \ subj_mask : ref_vox_img.q[v] = Zero

C1_Witness ==
    /\ pc = "return"
    /\ Vox \ subj_mask # {}
    /\ \E v \in subj_mask : ~IsNaN(ref_vox_img.q[v]) /\ ref_vox_img.q[v] # Zero

\* C2: in get_seedmap_vox_con, whenever a map is returned every output voxel
\* outside the stimulation ROI is exactly zero.
C2_OutsideStimZero ==
    (fn = "seedmap" /\ HasImage) =>
        \A v \in Vox : ~InStim(v) => ref_vox_img.q[v] = Zero

\* the seed map as loaded has non-zero weights only inside the stimulation ROI
OnlyInStim == \A i \in DOMAIN seedmap : seedmap[i] # 0 => masked_stim_mask[i] # 0

\* C3: when np.average runs, the weight of every voxel inside the stimulation
\* ROI is zero; a seed map with non-zero weights only inside the ROI has all
\* its weights zeroed, and its call never gets past np.average: it raises and
\* returns no map.
C3_StimWeightsZero ==
    fn = "seedmap" =>
        /\ pc = "seed" =>
              \A i \in DOMAIN masked_seedmap :
                  masked_stim_mask[i] # 0 => masked_seedmap[i] = 0
        /\ (pc \in {"loop", "append", "seed"} /\ OnlyInStim) =>
              \A i \in DOMAIN masked_seedmap : masked_seedmap[i] = 0
        /\ pc \in PastAverage => ~OnlyInStim

C3_Witness ==
    /\ fn = "seedmap" /\ pc = "seed"
    /\ OnlyInStim
    /\ \E i \in DOMAIN seedmap : seedmap[i] # 0
    /\ Len(cat_clean_tses) > 0

\* C5: get_seedmap_vox_con fails whenever the weighted average series has
\* zero variance before it is z-scored.
C5_ZeroVarianceRaises ==
    [][(pc = "zscore" /\ Len(seed_ts.q) > 0 /\ Variance(seed_ts.q) = Zero)
          => pc' = "failed"]_vars


\* the call was given one run, bare or as a one-element collection
OneRun == bold_path[1] = "bare" \/ (bold_path[1] = "list" /\ Len(bold_path[2]) = 1)

\* sum over the reference voxels of row t of M
RefRowSum(M, t) ==
    ISum([i \in DOMAIN masked_ref_mask |-> IF masked_ref_mask[i] # 0 THEN M[t][i] ELSE 0])

NRef == Cardinality({i \in DOMAIN masked_ref_mask : masked_ref_mask[i] # 0})

\* (sum over t of M[t][c] * mean over the reference voxels of M[t]) / T
RefStatistic(M, c) ==
    IF NRef = 0 THEN NaN
    ELSE Rat(ISum([t \in 1..Len(M) |-> M[t][c] * RefRowSum(M, t)]), NRef * Len(M))

Complete(img) == DOMAIN img = {"q", "s"} /\ DOMAIN img.q = Vox

\* C6: a call returns a complete map or fails with none; the file is written
\* at most once, only with an out_path, only once every run is cleaned and the
\* map is built, and a call failing before the write leaves no file.
C6_AllOrNothing ==
    InCall =>
        /\ Len(files) <= 1
        /\ files # <<>> => out_path # "none"
        /\ files # <<>> =>
              \/ pc \in {"return", "done"} /\ files[1] = ref_vox_img /\ Complete(files[1])
              \/ pc = "failed" /\ err = "OSError"
        /\ (pc = "return" /\ files # <<>>) =>
              done_runs = Len(bold_paths) /\ Len(vox_dat.q) = NMask
        /\ pc = "failed" =>
              DOMAIN ref_vox_img = {} /\ (err # "OSError" => files = <<>>)
        /\ pc = "done" =>
              /\ err = "none" /\ Complete(ref_vox_img)
              /\ out_path # "none" => Len(files) = 1

C6_Witness ==
    /\ fn = "seedmap" /\ pc = "done" /\ Len(files) = 1
    /\ bold_path[1] = "list" /\ Len(bold_path[2]) >= 2
    /\ files[1] = ref_vox_img

\* the rows of m after its first n
ExpectedKept(m, n) ==
    [j \in 1..(IF Len(m) > n THEN Len(m) - n ELSE 0) |-> m[j + n]]

\* the rows of the runs before run i
Offset(ms, i) == ISum([h \in 1..(i - 1) |-> Len(ms[h])])

\* C7: in get_seedmap_vox_con each run contributes its cleaned matrix without
\* its first n_dummy rows (max(L - n, 0) rows), and the stacked matrix is these
\* in the order of the runs, rows in order.
C7_PerRunDrop ==
    [][/\ (fn = "seedmap" /\ pc = "append") =>
              clean_tses' = Append(clean_tses, ExpectedKept(cleaned, n_dummy))
       /\ (fn = "seedmap" /\ pc = "loop" /\ pc' = "seed") =>
              /\ Len(cat_clean_tses') = Offset(clean_tses, Len(clean_tses) + 1)
              /\ \A i \in 1..Len(clean_tses) : \A j \in 1..Len(clean_tses[i]) :
                    cat_clean_tses'[Offset(clean_tses, i) + j] = clean_tses[i][j]]_vars

C7_Witness ==
    /\ fn = "seedmap" /\ pc = "seed" /\ n_dummy >= 1
    /\ Len(bold_paths) >= 2
    /\ Len(cat_clean_tses) >= 2

\* C8: in get_ref_vox_con the value at each mask voxel v is
\* (sum over t of M[t][v] * s[t]) / T with s[t] the mean of M[t] over the
\* reference voxels; the series is not z-scored and no column is zeroed.
C8_RefStatistic ==
    fn = "ref" =>
        /\ pc \notin {"zscore", "zero_cols"}
        /\ HasImage =>
              /\ ref_vox_img.s = One
              /\ seed_ts.q = [t \in 1..Len(cat_clean_tses) |->
                                Rat(RefRowSum(cat_clean_tses, t), NRef)]
              /\ \A v \in subj_mask :
                    ref_vox_img.q[v] = RefStatistic(cat_clean_tses, Col(v))

C8_Witness ==
    /\ fn = "ref" /\ pc = "return"
    /\ Len(cat_clean_tses) >= 2 /\ NRef >= 1 /\ NRef < NMask
    /\ \E v \in subj_mask : ref_vox_img.q[v][2] > 1

RECURSIVE AffSum(_, _, _)
\* sum over the points p of S of row c of A applied to (p, 1)
AffSum(S, A, c) ==
    IF S = {} THEN 0
    ELSE LET p == CHOOSE x \in S : TRUE
         IN  A[c][1] * p[1] + A[c][2] * p[2] + A[c][3] * p[3] + A[c][4]
               + AffSum(S \ {p}, A, c)

Identity == << <<1, 0, 0, 0>>, <<0, 1, 0, 0>>, <<0, 0, 1, 0>>, <<0, 0, 0, 1>> >>

\* C9: get_com_in_mm returns the mean over the non-zero voxels of their
\* affine-transformed coordinates; for one voxel and the identity affine, that
\* voxel's grid coordinates.
C9_CenterOfMass ==
    (fn = "com" /\ pc = "done") =>
        /\ \A c \in 1..3 :
              com[c] = Rat(AffSum(clust_img.data, clust_img.affine, c),
                           Cardinality(clust_img.data))
        /\ (clust_img.affine = Identity /\ Cardinality(clust_img.data) = 1) =>
              \A p \in clust_img.data : \A c \in 1..3 : com[c] = <<p[c], 1>>

C9_Witness ==
    /\ fn = "com" /\ pc = "done"
    /\ Cardinality(clust_img.data) = 2 /\ clust_img.affine # Identity
    /\ \E c \in 1..3 : com[c][2] = 2

\* the weighted average of row t of M over the voxels outside the stimulation
\* ROI only, with the weights of the seed map as loaded
OutsideAverage(M, t) ==
    Rat(ISum([i \in DOMAIN seedmap |->
                IF masked_stim_mask[i] = 0 THEN M[t][i] * seedmap[i] ELSE 0]),
        ISum([i \in DOMAIN seedmap |->
                IF masked_stim_mask[i] = 0 THEN seedmap[i] ELSE 0]))

\* C10: the reference series of get_seedmap_vox_con is computed from the
\* stacked matrix before any column is zeroed and depends only on the columns
\* outside the stimulation ROI.
C10_SeriesIgnoresStim ==
    fn = "seedmap" =>
        /\ pc = "zscore" =>
              seed_ts.q = [t \in 1..Len(cat_clean_tses) |->
                             OutsideAverage(cat_clean_tses, t)]
        /\ pc = "zero_cols" =>
              seed_ts = ZScored([t \in 1..Len(cat_clean_tses) |->
                                   OutsideAverage(cat_clean_tses, t)])

C10_Witness ==
    /\ fn = "seedmap" /\ pc = "zero_cols"
    /\ \E i \in DOMAIN seedmap :
          /\ masked_stim_mask[i] # 0 /\ seedmap[i] # 0
          /\ \E t \in 1..Len(cat_clean_tses) : cat_clean_tses[t][i] # 0
    /\ \E t \in 1..Len(cat_clean_tses) : ~IsNaN(seed_ts.q[t])

=============================================================================
